---- MODULE Spec2Model ----
(***************************************************************************)
(* Model of the workflow editor's graph store (redux/flowSlice), of the    *)
(* component handlers that dispatch to it, and of the mock persistence     *)
(* service (apiService over localStorage) of components/workFlow.          *)
(*                                                                         *)
(* A JavaScript value that may be null is modelled as a sequence of length *)
(* at most one: <<>> is null, <<v>> is the value v.                        *)
(***************************************************************************)
EXTENDS Integers, Sequences, FiniteSets, TLC

\* ------------------------------------------------------------------ bounds
MaxNodes == 4       \* longest node sequence the model lets addNode build
MaxEdges == 3       \* longest edge sequence the model lets onConnect build

\* ------------------------------------------------------------ input sets
\* identifiers: the three seeded ones and one produced by `${Date.now()}`
Ids == {"1", "2", "3", "4"}
\* identifiers handed to deleteNode / updateNodeLabel / node changes
OpIds == Ids \ {"3"}
\* labels typed into the properties panel
NewLabels == {"Payment of $999"}
\* where a drag moves a node to
DragPositions == {[x |-> 100, y |-> 100]}
\* nodes a sidebar drop creates
DropNodes ==
  {[id |-> "4", type |-> "payment", data |-> [label |-> "Payment of $400"],
    position |-> [x |-> 40, y |-> 40]]}
\* connections drawn on the canvas (source handle -> target handle)
Connections == {[source |-> "1", target |-> "3"]}

\* ------------------------------------------------------------ seeded state
initialNodes ==
  << [id |-> "1", type |-> "payment",  data |-> [label |-> "Payment of $300"],
      position |-> [x |-> 250, y |-> 50]],
     [id |-> "2", type |-> "location", data |-> [label |-> "America"],
      position |-> [x |-> 250, y |-> 150]],
     [id |-> "3", type |-> "gateway",  data |-> [label |-> "RazorPay"],
      position |-> [x |-> 250, y |-> 250]] >>

initialEdges ==
  << [id |-> "e1-2", source |-> "1", target |-> "2", type |-> "custom"],
     [id |-> "e2-3", source |-> "2", target |-> "3", type |-> "custom"] >>

initialState ==
  [nodes |-> initialNodes, edges |-> initialEdges, selectedNode |-> <<>>]

\* ------------------------------------------------------------ payloads
\* an action payload: an array, or something Array.isArray rejects
Arr(s) == [isArray |-> TRUE, value |-> s]
NotArray == [isArray |-> FALSE, value |-> <<>>]

\* ------------------------------------------------------------ reducers
\* each reducer maps the slice state and the action payload to the next state
\* mutation: a bulk replacement that also drops the selection
setNodesClearsSelection(state, payload) ==
  [state EXCEPT !.nodes = IF payload.isArray THEN payload.value ELSE <<>>,
                !.selectedNode = <<>>]

\* mutation: a bulk replacement that prunes the edges left without a node
setNodesPrunesEdges(state, payload) ==
  LET ns == IF payload.isArray THEN payload.value ELSE <<>>
      ids == {ns[i].id : i \in 1..Len(ns)}
  IN  [state EXCEPT
         !.nodes = ns,
         !.edges = SelectSeq(state.edges,
                     LAMBDA e : e.source \in ids /\ e.target \in ids)]

setNodes(state, payload) ==
  [state EXCEPT !.nodes = IF payload.isArray THEN payload.value ELSE <<>>]

setEdges(state, payload) ==
  [state EXCEPT !.edges = IF payload.isArray THEN payload.value ELSE <<>>]

setSelectedNode(state, payload) ==
  [state EXCEPT !.selectedNode = payload]

\* mutation: a node whose identifier is already present is not added
addNodeDedupes(state, payload) ==
  [state EXCEPT !.nodes =
     IF \E i \in 1..Len(state.nodes) : state.nodes[i].id = payload.id
       THEN state.nodes ELSE Append(state.nodes, payload)]

addNode(state, payload) ==
  [state EXCEPT !.nodes = Append(state.nodes, payload)]

\* mutation: the map forgets to test the identifier
MapLabelEveryNode(ns, nodeId, newLabel) ==
  [i \in 1..Len(ns) |->
     [ns[i] EXCEPT !.data = [ns[i].data EXCEPT !.label = newLabel]]]

\* nodes.map(...): the label of every node of that id is replaced
MapLabel(ns, nodeId, newLabel) ==
  [i \in 1..Len(ns) |->
     IF ns[i].id = nodeId
       THEN [ns[i] EXCEPT !.data = [ns[i].data EXCEPT !.label = newLabel]]
       ELSE ns[i]]

\* nodes.find(node => node.id === nodeId): the first match, or undefined
Find(ns, nodeId) ==
  LET hits == {i \in 1..Len(ns) : ns[i].id = nodeId}
  IN  IF hits = {} THEN <<>>
      ELSE << ns[CHOOSE i \in hits : \A j \in hits : i <= j] >>

\* mutation: the selection is set to the relabelled node, selected or not
updateNodeLabelSelects(state, payload) ==
  LET mapped == MapLabel(state.nodes, payload.nodeId, payload.newLabel)
  IN  [state EXCEPT
         !.nodes = mapped,
         !.selectedNode =
            IF state.selectedNode = <<>> \/ state.selectedNode[1].id = payload.nodeId
              THEN Find(mapped, payload.nodeId)
              ELSE state.selectedNode]

\* mutation: the selection is left as it was
updateNodeLabelStaleSelection(state, payload) ==
  [state EXCEPT
     !.nodes = MapLabel(state.nodes, payload.nodeId, payload.newLabel)]

updateNodeLabel(state, payload) ==
  LET mapped == MapLabel(state.nodes, payload.nodeId, payload.newLabel)
  IN  [state EXCEPT
         !.nodes = mapped,
         !.selectedNode =
            IF state.selectedNode # <<>> /\ state.selectedNode[1].id = payload.nodeId
              THEN Find(mapped, payload.nodeId)
              ELSE state.selectedNode]

KeepNode(node, payload) == node.id # payload

\* mutation: only the edges leaving the node are dropped
KeepEdgeSourceOnly(edge, payload) == edge.source # payload

KeepEdge(edge, payload) == edge.source # payload /\ edge.target # payload

\* mutation: the selection is cleared only when the deleted node was selected
deleteNodeKeepsOtherSelection(state, payload) ==
  [nodes |-> SelectSeq(state.nodes, LAMBDA node : KeepNode(node, payload)),
   edges |-> SelectSeq(state.edges, LAMBDA edge : KeepEdge(edge, payload)),
   selectedNode |->
     IF state.selectedNode # <<>> /\ state.selectedNode[1].id # payload
       THEN state.selectedNode ELSE <<>>]

deleteNode(state, payload) ==
  [nodes |-> SelectSeq(state.nodes, LAMBDA node : KeepNode(node, payload)),
   edges |-> SelectSeq(state.edges, LAMBDA edge : KeepEdge(edge, payload)),
   selectedNode |-> <<>>]

\* ------------------------------------------- reactflow helpers (callers)
Range(s) == {s[i] : i \in 1..Len(s)}
NodeIds(ns) == {ns[i].id : i \in 1..Len(ns)}

\* the changes the canvas reports for a node: a drag, or a removal by key
NodeChanges ==
  {[type |-> "position", id |-> x, position |-> p] :
      x \in OpIds, p \in DragPositions}
  \cup {[type |-> "remove", id |-> x, position |-> [x |-> 0, y |-> 0]] : x \in OpIds}

\* applyNodeChanges(changes, nodes) for one change
applyNodeChanges(change, ns) ==
  IF change.type = "remove"
    THEN SelectSeq(ns, LAMBDA node : node.id # change.id)
    ELSE [i \in 1..Len(ns) |->
            IF ns[i].id = change.id
              THEN [ns[i] EXCEPT !.position = change.position]
              ELSE ns[i]]

\* applyEdgeChanges(changes, edges) for one removal
applyEdgeChanges(edgeId, es) ==
  SelectSeq(es, LAMBDA edge : edge.id # edgeId)

\* addEdge({...params, type: "custom"}, edges): the id is built from the
\* endpoints and their handles; an existing connection is not added twice
addEdge(params, es) ==
  LET edge == [id |-> "reactflow__edge-" \o params.source \o "source-"
                       \o params.target \o "target",
               source |-> params.source, target |-> params.target,
               type |-> "custom"]
  IN  IF \E i \in 1..Len(es) : es[i].id = edge.id THEN es ELSE Append(es, edge)

\* ------------------------------------------------------ persistence (JSON)
\* JSON text is modelled as a tagged tree: <<"string", s>>, <<"number", n>>,
\* <<"array", items>>, <<"object", members>> with members <<key, value>>
JStr(s) == <<"string", s>>
JNum(n) == <<"number", n>>
JArr(items) == <<"array", items>>
JObj(members) == <<"object", members>>

StringifyNode(n) ==
  JObj(<< <<"id", JStr(n.id)>>,
          <<"type", JStr(n.type)>>,
          <<"data", JObj(<< <<"label", JStr(n.data.label)>> >>)>>,
          <<"position", JObj(<< <<"x", JNum(n.position.x)>>,
                                <<"y", JNum(n.position.y)>> >>)>> >>)

StringifyEdge(e) ==
  JObj(<< <<"id", JStr(e.id)>>, <<"source", JStr(e.source)>>,
          <<"target", JStr(e.target)>>, <<"type", JStr(e.type)>> >>)

\* mutation: the edges are not written
StringifyNodesOnly(data) ==
  JObj(<< <<"nodes", JArr([i \in 1..Len(data.nodes) |-> StringifyNode(data.nodes[i])])>>,
          <<"edges", JArr(<<>>)>> >>)

\* JSON.stringify(data) for data = { nodes, edges }
Stringify(data) ==
  JObj(<< <<"nodes", JArr([i \in 1..Len(data.nodes) |-> StringifyNode(data.nodes[i])])>>,
          <<"edges", JArr([i \in 1..Len(data.edges) |-> StringifyEdge(data.edges[i])])>> >>)

\* JSON.parse(text)
RECURSIVE Parse(_)
Parse(j) ==
  CASE j[1] = "string" -> j[2]
    [] j[1] = "number" -> j[2]
    [] j[1] = "array"  -> [i \in 1..Len(j[2]) |-> Parse(j[2][i])]
    [] j[1] = "object" ->
         LET ms == j[2]
             last(k) == CHOOSE i \in 1..Len(ms) :
                          /\ ms[i][1] = k
                          /\ \A h \in 1..Len(ms) : ms[h][1] = k => h <= i
         IN  [k \in {ms[i][1] : i \in 1..Len(ms)} |-> Parse(ms[last(k)][2])]

\* response.data.nodes / response.data.edges as a reducer payload
Field(data, name) ==
  IF name \in DOMAIN data THEN Arr(data[name]) ELSE NotArray

\* ------------------------------------------------------------------ state
VARIABLES
  nodes,          \* state.flow.nodes
  edges,          \* state.flow.edges
  selectedNode,   \* state.flow.selectedNode
  isLoading,      \* the component's isLoading flag
  pending,        \* apiService calls whose timer has not fired, oldest first
  savedWorkflow,  \* localStorage item 'savedWorkflow': <<>> or <<text>>
  lastOp,         \* history: the operation that produced this state
  lastSaved,      \* history: the data of the last completed save, <<>> if none
  overwrote       \* history: a completed save has replaced an earlier item

vars == <<nodes, edges, selectedNode, isLoading, pending, savedWorkflow,
          lastOp, lastSaved, overwrote>>
store == <<nodes, edges, selectedNode>>
persistence == <<isLoading, pending, savedWorkflow, lastSaved, overwrote>>

flow == [nodes |-> nodes, edges |-> edges, selectedNode |-> selectedNode]

\* the store takes the state a reducer returns
Reduce(next, op) ==
  /\ nodes' = next.nodes
  /\ edges' = next.edges
  /\ selectedNode' = next.selectedNode
  /\ lastOp' = op

Init ==
  /\ nodes = initialState.nodes
  /\ edges = initialState.edges
  /\ selectedNode = initialState.selectedNode
  /\ isLoading = FALSE
  /\ pending = <<>>
  /\ savedWorkflow = <<>>
  /\ lastOp = "init"
  /\ lastSaved = <<>>
  /\ overwrote = FALSE

\* ------------------------------------------------------- store operations
\* onNodesChange: dispatch(setNodes(applyNodeChanges(changes, nodes)))
OnNodesChange(change) ==
  /\ Reduce(setNodes(flow, Arr(applyNodeChanges(change, nodes))), "setNodes")
  /\ UNCHANGED persistence

\* setNodes with a payload that is not an array
SetNodes(payload) ==
  /\ Reduce(setNodes(flow, payload), "setNodes")
  /\ UNCHANGED persistence

\* onEdgesChange: dispatch(setEdges(applyEdgeChanges(changes, edges)))
OnEdgesChange(edgeId) ==
  /\ Reduce(setEdges(flow, Arr(applyEdgeChanges(edgeId, edges))), "setEdges")
  /\ UNCHANGED persistence

\* onConnect: a connection is drawn from a source handle to a target handle
\* of two rendered nodes (a gateway node has no source handle)
OnConnect(params) ==
  /\ Len(edges) < MaxEdges
  /\ \E i \in 1..Len(nodes) : nodes[i].id = params.source /\ nodes[i].type # "gateway"
  /\ params.target \in NodeIds(nodes)
  /\ Reduce(setEdges(flow, Arr(addEdge(params, edges))), "setEdges")
  /\ UNCHANGED persistence

SetEdges(payload) ==
  /\ Reduce(setEdges(flow, payload), "setEdges")
  /\ UNCHANGED persistence

\* onNodeClick hands over the clicked node; null clears the selection
SetSelectedNode(payload) ==
  /\ Reduce(setSelectedNode(flow, payload), "setSelectedNode")
  /\ UNCHANGED persistence

\* onDrop: dispatch(addNode(newNode))
OnDrop(newNode) ==
  /\ Len(nodes) < MaxNodes
  /\ Reduce(addNode(flow, newNode), "addNode")
  /\ UNCHANGED persistence

UpdateNodeLabel(nodeId, newLabel) ==
  /\ Reduce(updateNodeLabel(flow, [nodeId |-> nodeId, newLabel |-> newLabel]),
            "updateNodeLabel")
  /\ UNCHANGED persistence

DeleteNode(x) ==
  /\ Reduce(deleteNode(flow, x), "deleteNode")
  /\ UNCHANGED persistence

\* ------------------------------------------------------------ persistence
\* the Save button is disabled while isLoading or when there are no nodes;
\* the handler captures nodes and edges as they are at the click
SaveWorkflow ==
  /\ ~isLoading
  /\ Len(nodes) > 0
  /\ isLoading' = TRUE
  /\ pending' = Append(pending, [op |-> "save",
                                 data |-> <<[nodes |-> nodes, edges |-> edges]>>])
  /\ lastOp' = "saveWorkflow"
  /\ UNCHANGED <<store, savedWorkflow, lastSaved, overwrote>>

\* mutation: the timer writes the store as it is when it fires
SaveResolveWritesCurrent ==
  /\ pending # <<>>
  /\ Head(pending).op = "save"
  /\ savedWorkflow' = << Stringify([nodes |-> nodes, edges |-> edges]) >>
  /\ pending' = Tail(pending)
  /\ isLoading' = FALSE
  /\ lastOp' = "saveWorkflow:resolved"
  /\ lastSaved' = Head(pending).data
  /\ overwrote' = (overwrote \/ savedWorkflow # <<>>)
  /\ UNCHANGED store

\* the timer of apiService.saveWorkflow fires: the item is overwritten, the
\* promise resolves and the handler's finally block clears isLoading
SaveResolve ==
  /\ pending # <<>>
  /\ Head(pending).op = "save"
  /\ savedWorkflow' = << Stringify(Head(pending).data[1]) >>
  /\ pending' = Tail(pending)
  /\ isLoading' = FALSE
  /\ lastOp' = "saveWorkflow:resolved"
  /\ lastSaved' = Head(pending).data
  /\ overwrote' = (overwrote \/ savedWorkflow # <<>>)
  /\ UNCHANGED store

\* the timer of apiService.saveWorkflow fires and localStorage.setItem throws
\* (the storage quota is exceeded): the exception leaves the timer callback,
\* resolve is not called, the promise stays pending and the handler never
\* reaches its finally block
SaveThrows ==
  /\ pending # <<>>
  /\ Head(pending).op = "save"
  /\ pending' = Tail(pending)
  /\ lastOp' = "saveWorkflow:threw"
  /\ UNCHANGED <<store, isLoading, savedWorkflow, lastSaved, overwrote>>

\* mutation: the Load button stays enabled while a request is in flight
LoadWorkflowNoGuard ==
  /\ Len(pending) < 2
  /\ isLoading' = TRUE
  /\ pending' = Append(pending, [op |-> "load", data |-> <<>>])
  /\ lastOp' = "loadWorkflow"
  /\ UNCHANGED <<store, savedWorkflow, lastSaved, overwrote>>

\* the Load button is disabled while isLoading
LoadWorkflow ==
  /\ ~isLoading
  /\ isLoading' = TRUE
  /\ pending' = Append(pending, [op |-> "load", data |-> <<>>])
  /\ lastOp' = "loadWorkflow"
  /\ UNCHANGED <<store, savedWorkflow, lastSaved, overwrote>>

\* mutation: the selection is not cleared after the replacement
applyLoadedKeepsSelection(state, data) ==
  setEdges(setNodes(state, Field(data, "nodes")), Field(data, "edges"))

\* mutation: a field the loaded data lacks leaves the store's field as it was
applyLoadedSkipsMissing(state, data) ==
  LET s1 == IF "nodes" \in DOMAIN data
              THEN setNodes(state, Field(data, "nodes")) ELSE state
      s2 == IF "edges" \in DOMAIN data
              THEN setEdges(s1, Field(data, "edges")) ELSE s1
  IN  setSelectedNode(s2, <<>>)

\* the three dispatches of a resolved load
applyLoaded(state, data) ==
  setSelectedNode(setEdges(setNodes(state, Field(data, "nodes")),
                           Field(data, "edges")),
                  <<>>)

\* the timer of apiService.loadWorkflow fires and an item is found
LoadResolve ==
  /\ pending # <<>>
  /\ Head(pending).op = "load"
  /\ savedWorkflow # <<>>
  /\ Reduce(applyLoaded(flow, Parse(savedWorkflow[1])), "loadWorkflow:resolved")
  /\ pending' = Tail(pending)
  /\ isLoading' = FALSE
  /\ UNCHANGED <<savedWorkflow, lastSaved, overwrote>>

\* mutation: a failed load also clears the selection
LoadRejectClearsSelection ==
  /\ pending # <<>>
  /\ Head(pending).op = "load"
  /\ savedWorkflow = <<>>
  /\ pending' = Tail(pending)
  /\ isLoading' = FALSE
  /\ lastOp' = "loadWorkflow:rejected"
  /\ selectedNode' = <<>>
  /\ UNCHANGED <<nodes, edges, savedWorkflow, lastSaved, overwrote>>

\* the timer fires and there is no item: the promise is rejected
LoadReject ==
  /\ pending # <<>>
  /\ Head(pending).op = "load"
  /\ savedWorkflow = <<>>
  /\ pending' = Tail(pending)
  /\ isLoading' = FALSE
  /\ lastOp' = "loadWorkflow:rejected"
  /\ UNCHANGED <<store, savedWorkflow, lastSaved, overwrote>>

\* the item 'savedWorkflow' is written by something other than this component
\* (localStorage is shared by every script of the origin)
ForeignItem(text) ==
  /\ savedWorkflow' = <<text>>
  /\ lastOp' = "storage"
  /\ UNCHANGED <<store, isLoading, pending, lastSaved, overwrote>>

\* ---------------------------------------------------------- specifications
\* the store on its own: every store operation, on every identifier
NextStore ==
  \/ \E change \in NodeChanges : OnNodesChange(change)
  \/ SetNodes(NotArray)
  \/ \E e \in Range(edges) : OnEdgesChange(e.id)
  \/ \E params \in Connections : OnConnect(params)
  \/ SetEdges(NotArray)
  \/ \E payload \in {<<>>} \cup {<<n>> : n \in Range(nodes)} : SetSelectedNode(payload)
  \/ \E newNode \in DropNodes : OnDrop(newNode)
  \/ \E x \in OpIds, l \in NewLabels : UpdateNodeLabel(x, l)
  \/ \E x \in OpIds : DeleteNode(x)

SpecStore == Init /\ [][NextStore]_vars

\* the inputs of the store operations when they run beside save and load:
\* node "1" is removed by key, clicked and relabelled, node "2" is deleted,
\* and a dropped node gets an identifier that is not in use
KeyRemovals == {c \in NodeChanges : c.type = "remove" /\ c.id = "1"}
Clickable == {n \in Range(nodes) : n.id = "1"}
FreshDrops == {n \in DropNodes : n.id \notin NodeIds(nodes)}

\* the component: store operations interleaved with save and load
Next ==
  \/ \E change \in KeyRemovals : OnNodesChange(change)
  \/ SetNodes(NotArray)
  \/ \E e \in Range(edges) : OnEdgesChange(e.id)
  \/ \E params \in Connections : OnConnect(params)
  \/ SetEdges(NotArray)
  \/ \E payload \in {<<>>} \cup {<<n>> : n \in Clickable} : SetSelectedNode(payload)
  \/ \E newNode \in FreshDrops : OnDrop(newNode)
  \/ \E l \in NewLabels : UpdateNodeLabel("1", l)
  \/ DeleteNode("2")
  \/ SaveWorkflow
  \/ SaveResolve
  \/ LoadWorkflow
  \/ LoadResolve
  \/ LoadReject

Spec == Init /\ [][Next]_vars

\* the component on a storage whose writes can fail; a timer that was set
\* fires (setTimeout, 1000 ms)
SaveTimer == SaveResolve \/ SaveThrows
LoadTimer == LoadResolve \/ LoadReject

NextLive ==
  \/ Next
  \/ SaveThrows

SpecLive == Init /\ [][NextLive]_vars /\ WF_vars(SaveTimer) /\ WF_vars(LoadTimer)

\* items that are JSON objects without a nodes field or without an edges field
ForeignItems ==
  { JObj(<< <<"edges", JArr(<<StringifyEdge(initialEdges[1])>>)>> >>),
    JObj(<< <<"nodes", JArr(<<StringifyNode(initialNodes[1])>>)>> >>) }

\* the component beside a foreign writer of the item
NextForeign ==
  \/ Next
  \/ \E text \in ForeignItems : ForeignItem(text)

SpecForeign == Init /\ [][NextForeign]_vars

\* ================================================================ claims
\* every edge of es starts and ends at a node of ns
EdgeIntegrity(ns, es) ==
  \A i \in 1..Len(es) : es[i].source \in NodeIds(ns) /\ es[i].target \in NodeIds(ns)

\* after is before restricted to the positions in keep, in the same order
KeepsExactly(before, after, keep) ==
  /\ Len(after) = Cardinality(keep)
  /\ \A i \in keep : after[Cardinality({j \in keep : j <= i})] = before[i]

node1 == initialNodes[1]
node3 == initialNodes[3]

\* C1 (as stated): in every reachable state every edge's source and target
\* are identifiers of nodes in the node sequence.
C1_EdgeIntegrityAlways == EdgeIntegrity(nodes, edges)

\* C1 (amended): edge referential integrity is preserved by setSelectedNode,
\* addNode, updateNodeLabel and deleteNode, and a resolved load establishes it
\* when it held in the snapshot that was saved; setNodes and setEdges do not
\* prune or validate and can break it.
C1_EdgeIntegrityPreserved ==
  [][ /\ ( /\ lastOp' \in {"setSelectedNode", "addNode", "updateNodeLabel", "deleteNode"}
           /\ EdgeIntegrity(nodes, edges) )
         => EdgeIntegrity(nodes', edges')
      /\ ( /\ lastOp' = "loadWorkflow:resolved"
           /\ EdgeIntegrity(lastSaved[1].nodes, lastSaved[1].edges) )
         => EdgeIntegrity(nodes', edges') ]_vars

\* deleteNode has run, removed a node with edges, and left an edge in place
C1_Witness ==
  /\ lastOp = "deleteNode"
  /\ "2" \notin NodeIds(nodes)
  /\ edges # <<>>
  /\ EdgeIntegrity(nodes, edges)

\* C2: if the selection is non-empty, the node sequence contains a node whose
\* identifier is the selected node's identifier.
C2_SelectionExists ==
  selectedNode # <<>> => selectedNode[1].id \in NodeIds(nodes)

\* C3: deleteNode(x) removes every node of identifier x and exactly the edges
\* whose source or target is x, keeps everything else in order, and empties
\* the selection; from the seeded state deleteNode("2") yields nodes [1, 3],
\* no edges and an empty selection.
C3_DeleteNode ==
  [][ /\ \A x \in OpIds :
           DeleteNode(x) =>
             /\ KeepsExactly(nodes, nodes', {i \in 1..Len(nodes) : nodes[i].id # x})
             /\ KeepsExactly(edges, edges',
                  {i \in 1..Len(edges) : ~(edges[i].source = x \/ edges[i].target = x)})
             /\ selectedNode' = <<>>
      /\ (flow = [initialState EXCEPT !.selectedNode = selectedNode] /\ DeleteNode("2"))
           => /\ nodes' = <<node1, node3>>
              /\ edges' = <<>>
              /\ selectedNode' = <<>> ]_vars

\* deleteNode("2") has run on the seeded nodes and edges
C3_Witness ==
  /\ lastOp = "deleteNode"
  /\ nodes = <<node1, node3>>
  /\ edges = <<>>
  /\ selectedNode = <<>>

\* C4: updateNodeLabel(x, L2) keeps the length and order of the node sequence,
\* gives the nodes of identifier x the label L2 and leaves their identifier,
\* kind and position alone, leaves every other node and the edge sequence
\* unchanged; with no node of identifier x nothing changes.
C4_UpdateNodeLabel ==
  [][ \A x \in OpIds, l \in NewLabels :
        UpdateNodeLabel(x, l) =>
          /\ Len(nodes') = Len(nodes)
          /\ \A i \in 1..Len(nodes) :
               IF nodes[i].id = x
                 THEN /\ nodes'[i].data.label = l
                      /\ nodes'[i].id = nodes[i].id
                      /\ nodes'[i].type = nodes[i].type
                      /\ nodes'[i].position = nodes[i].position
                 ELSE nodes'[i] = nodes[i]
          /\ edges' = edges
          /\ (x \notin NodeIds(nodes) => nodes' = nodes) ]_vars

\* a label update has run on a present node beside nodes it left alone
C4_Witness ==
  /\ lastOp = "updateNodeLabel"
  /\ \E i \in 1..Len(nodes) : nodes[i].data.label \in NewLabels
  /\ \E i \in 1..Len(nodes) : nodes[i].data.label \notin NewLabels

\* C5: if the selection is non-empty, the selected record equals in every
\* field the node of the same identifier in the node sequence.
C5_SelectionNeverStale ==
  selectedNode # <<>> =>
    \A i \in 1..Len(nodes) :
      nodes[i].id = selectedNode[1].id => nodes[i] = selectedNode[1]

\* C6: updateNodeLabel(x, L2) on a present, selected node x leaves the
\* selection non-empty, with identifier x and label L2, equal to the updated
\* record stored in the node sequence.
C6_SelectionRefreshed ==
  [][ \A x \in OpIds, l \in NewLabels :
        ( /\ UpdateNodeLabel(x, l)
          /\ x \in NodeIds(nodes)
          /\ selectedNode # <<>>
          /\ selectedNode[1].id = x )
        => /\ selectedNode' # <<>>
           /\ selectedNode'[1].id = x
           /\ selectedNode'[1].data.label = l
           /\ \E i \in 1..Len(nodes') :
                /\ nodes'[i].id = x
                /\ nodes'[i] = selectedNode'[1] ]_vars

\* node "1" is selected and has been relabelled
C6_Witness ==
  /\ lastOp = "updateNodeLabel"
  /\ selectedNode # <<>>
  /\ selectedNode[1].id = "1"
  /\ selectedNode[1].data.label = "Payment of $999"
  /\ \E i \in 1..Len(nodes) : nodes[i] = selectedNode[1]

LoadCompletes ==
  /\ pending # <<>>
  /\ Head(pending).op = "load"
  /\ pending' = Tail(pending)

\* C7: the snapshot a successful load returns, JSON.parse of the stored item,
\* equals by value the data of the most recently completed save, identifiers,
\* kinds, labels, positions, edge endpoints and order included, however many
\* saves came before.
C7_RoundTrip ==
  savedWorkflow # <<>> =>
    /\ lastSaved # <<>>
    /\ Parse(savedWorkflow[1]) = lastSaved[1]
    /\ Parse(savedWorkflow[1]).nodes = lastSaved[1].nodes
    /\ Parse(savedWorkflow[1]).edges = lastSaved[1].edges

\* a load has resolved after a save overwrote an earlier one, and the store
\* holds the nodes and edges of the later save
C7_Witness ==
  /\ lastOp = "loadWorkflow:resolved"
  /\ overwrote
  /\ lastSaved[1].edges # <<>>
  /\ nodes = lastSaved[1].nodes
  /\ edges = lastSaved[1].edges

\* C8: a load issued when nothing was ever saved is rejected (NotFound) and
\* leaves nodes, edges and selection as they were; nothing is saved while the
\* load is in flight.
C8_LoadNotFound ==
  [][ /\ (pending # <<>> /\ Head(pending).op = "load") => savedWorkflow' = savedWorkflow
      /\ (LoadCompletes /\ lastSaved = <<>>)
           => /\ lastOp' = "loadWorkflow:rejected"
              /\ nodes' = nodes
              /\ edges' = edges
              /\ selectedNode' = selectedNode ]_vars

\* a load was rejected while a node was selected and the graph had changed
C8_Witness ==
  /\ lastOp = "loadWorkflow:rejected"
  /\ lastSaved = <<>>
  /\ selectedNode # <<>>
  /\ nodes # initialNodes

\* C9: a resolved load is one step of the store: right after it the node
\* sequence is the loaded snapshot's nodes, the edge sequence its edges, and
\* the selection is empty.
C9_LoadAppliedAsUnit ==
  lastOp = "loadWorkflow:resolved" =>
    /\ savedWorkflow # <<>>
    /\ nodes = Parse(savedWorkflow[1]).nodes
    /\ edges = Parse(savedWorkflow[1]).edges
    /\ selectedNode = <<>>

\* a load has resolved and replaced nodes and edges with a saved graph that
\* is not the seeded one
C9_Witness ==
  /\ lastOp = "loadWorkflow:resolved"
  /\ nodes # <<>>
  /\ nodes # initialNodes
  /\ edges # <<>>

\* C11: updateNodeLabel(id, L) on a selection Selected(id) leaves the
\* selection non-empty with the same identifier, also when no node of that
\* identifier is (any longer) in the node sequence.
C11_LabelUpdateKeepsSelected ==
  [][ \A x \in OpIds, l \in NewLabels :
        ( /\ UpdateNodeLabel(x, l)
          /\ selectedNode # <<>>
          /\ selectedNode[1].id = x )
        => /\ selectedNode' # <<>>
           /\ selectedNode'[1].id = x ]_vars

\* C12: the selection goes from empty to non-empty only by setSelectedNode;
\* setNodes, setEdges, addNode, updateNodeLabel, deleteNode, save and load
\* never turn an empty selection into a non-empty one.
C12_OnlySetSelectionSelects ==
  [][ (selectedNode = <<>> /\ selectedNode' # <<>>) => lastOp' = "setSelectedNode" ]_vars

\* a click has made the selection non-empty, on a graph that was saved and
\* relabelled before
C12_Witness ==
  /\ lastOp = "setSelectedNode"
  /\ selectedNode # <<>>
  /\ lastSaved # <<>>
  /\ nodes = lastSaved[1].nodes
  /\ \E i \in 1..Len(nodes) : nodes[i].data.label \in NewLabels

\* C13: intents take effect in the order they are received: a mutation
\* received while an earlier requested load is in flight is applied after the
\* load's replacement. Here lastOp names the intent received last before the
\* load completes; applied second, its effect is there after the completion:
\* the payload of a setNodes, setEdges or setSelectedNode is what the store
\* holds, an added node is the last node, a deleted node and its edges are
\* absent, a relabelled node has its new label.
C13_IntentsInOrder ==
  [][ (LoadCompletes /\ savedWorkflow # <<>>) =>
        /\ lastOp = "setNodes" => nodes' = nodes
        /\ lastOp = "setEdges" => edges' = edges
        /\ lastOp = "setSelectedNode" => selectedNode' = selectedNode
        /\ lastOp = "addNode" =>
             /\ nodes' # <<>>
             /\ nodes'[Len(nodes')] = nodes[Len(nodes)]
        /\ lastOp = "deleteNode" =>
             \E x \in OpIds :
               /\ x \notin NodeIds(nodes)
               /\ x \notin NodeIds(nodes')
               /\ \A i \in 1..Len(edges') : edges'[i].source # x /\ edges'[i].target # x
        /\ lastOp = "updateNodeLabel" =>
             \E x \in OpIds, l \in NewLabels :
               /\ \A i \in 1..Len(nodes) : nodes[i].id = x => nodes[i].data.label = l
               /\ \A i \in 1..Len(nodes') : nodes'[i].id = x => nodes'[i].data.label = l ]_vars

\* the payloads the model hands to setNodes and to setEdges in this state
NodePayloads ==
  {NotArray} \cup {Arr(applyNodeChanges(c, nodes)) : c \in NodeChanges}
EdgePayloads ==
  {NotArray} \cup {Arr(applyEdgeChanges(e.id, edges)) : e \in Range(edges)}
             \cup {Arr(addEdge(params, edges)) : params \in Connections}

\* C14: setNodes(P) makes the node sequence exactly P when P is an array and
\* empty when it is not, and leaves edges (unpruned) and selection as they
\* were; setEdges(P) does the same for the edge sequence and leaves nodes and
\* selection as they were.
C14_Replace ==
  [][ /\ \A P \in NodePayloads :
           SetNodes(P) =>
             /\ P.isArray => nodes' = P.value
             /\ ~P.isArray => nodes' = <<>>
             /\ edges' = edges
             /\ selectedNode' = selectedNode
      /\ \A P \in EdgePayloads :
           SetEdges(P) =>
             /\ P.isArray => edges' = P.value
             /\ ~P.isArray => edges' = <<>>
             /\ nodes' = nodes
             /\ selectedNode' = selectedNode ]_vars

\* a setNodes has emptied the node sequence and left edges and selection
C14_Witness ==
  /\ lastOp = "setNodes"
  /\ nodes = <<>>
  /\ edges # <<>>
  /\ selectedNode # <<>>

\* C15: addNode(n) appends n: the length grows by one, every earlier node
\* keeps its place and value, n is last, also when n's identifier is already
\* present; edges and selection are unchanged.
C15_AddNodeAppends ==
  [][ \A n \in DropNodes :
        OnDrop(n) =>
          /\ Len(nodes') = Len(nodes) + 1
          /\ \A i \in 1..Len(nodes) : nodes'[i] = nodes[i]
          /\ nodes'[Len(nodes')] = n
          /\ edges' = edges
          /\ selectedNode' = selectedNode ]_vars

\* a node was added whose identifier another node already had
C15_Witness ==
  /\ lastOp = "addNode"
  /\ Len(nodes) >= 2
  /\ \E i \in 1..(Len(nodes) - 1) : nodes[i].id = nodes[Len(nodes)].id

\* a JavaScript array of at most MaxNodes + MaxEdges + 1 elements
IsArray(v) == \E n \in 0..(MaxNodes + MaxEdges + 1) : DOMAIN v = 1..n

\* the states the six reducers return from the current state
ReducerResults ==
       {setNodes(flow, P) : P \in NodePayloads}
  \cup {setEdges(flow, P) : P \in EdgePayloads}
  \cup {setSelectedNode(flow, p) : p \in {<<>>} \cup {<<n>> : n \in Range(nodes)}}
  \cup {addNode(flow, n) : n \in DropNodes}
  \cup {updateNodeLabel(flow, [nodeId |-> x, newLabel |-> l]) : x \in Ids, l \in NewLabels}
  \cup {deleteNode(flow, x) : x \in Ids}

\* C16: in every reachable state nodes and edges are arrays, each of the six
\* reducers returns a state whose nodes and edges are arrays (also for a
\* payload that is not an array), and a resolved load of an item without a
\* nodes field or without an edges field leaves that field the empty array.
C16_MutationsNeverFail ==
  /\ IsArray(nodes)
  /\ IsArray(edges)
  /\ \A r \in ReducerResults : IsArray(r.nodes) /\ IsArray(r.edges)
  /\ IsArray(setNodes(flow, NotArray).nodes)
  /\ (lastOp = "loadWorkflow:resolved" /\ savedWorkflow # <<>>) =>
       LET data == Parse(savedWorkflow[1])
       IN  /\ "nodes" \notin DOMAIN data => nodes = <<>>
           /\ "edges" \notin DOMAIN data => edges = <<>>

\* an item without a nodes field has been loaded over a graph that had nodes
\* selected, and the edges of the item are in the store
C16_Witness ==
  /\ lastOp = "loadWorkflow:resolved"
  /\ savedWorkflow # <<>>
  /\ "nodes" \notin DOMAIN Parse(savedWorkflow[1])
  /\ "edges" \in DOMAIN Parse(savedWorkflow[1])
  /\ nodes = <<>>
  /\ edges # <<>>

\* C17: at most one apiService call is in flight, isLoading is set while one
\* is, and while it is set no save and no load can be started.
C17_OnePending ==
  /\ Len(pending) <= 1
  /\ pending # <<>> => isLoading
  /\ isLoading => (~ENABLED SaveWorkflow /\ ~ENABLED LoadWorkflow)

\* a load is in flight and the store has been changed since it was requested
C17_Witness ==
  /\ isLoading
  /\ Len(pending) = 1
  /\ pending[1].op = "load"
  /\ lastOp = "addNode"

\* C18: a save is requested only with a non-empty node sequence and captures
\* nodes and edges as they are at the request; no step before the write
\* changes what was captured; the item written is the captured data, whatever
\* the store holds by then.
C18_SnapshotAtRequest ==
  [][ /\ SaveWorkflow =>
           /\ Len(nodes) > 0
           /\ pending' = <<[op |-> "save",
                            data |-> <<[nodes |-> nodes, edges |-> edges]>>]>>
      /\ (pending # <<>> /\ ~SaveResolve /\ ~LoadCompletes /\ ~LoadReject) =>
           pending' = pending
      /\ SaveResolve =>
           /\ savedWorkflow' # <<>>
           /\ Parse(savedWorkflow'[1]) = Head(pending).data[1] ]_vars

\* a save has completed after the store changed in flight: the item holds the
\* graph of the request, which is not the graph of the store
C18_Witness ==
  /\ lastOp = "saveWorkflow:resolved"
  /\ savedWorkflow # <<>>
  /\ Parse(savedWorkflow[1]) = lastSaved[1]
  /\ lastSaved[1].nodes # nodes

\* C19: whenever a save or a load has been started, so that isLoading is set,
\* isLoading is cleared later on.
C19_LoadingEnds == isLoading ~> ~isLoading
====
